---------------------------- MODULE Spec2Model ----------------------------
(***************************************************************************)
(* State machine of the TetrisGame component (src/unnamed/part_000).       *)
(*                                                                         *)
(* The component keeps its state in React useState cells.  Every function  *)
(* declared in the component body (moveDown, mergePiece, spawnNewPiece,    *)
(* ...) reads the values of the render in which it was created and writes  *)
(* through setters whose effect is only visible in the next render.  A     *)
(* handler is therefore modelled as an operator with two arguments:        *)
(*   r  - the render it closes over (what it READS), and                   *)
(*   st - the queue of state updates applied so far (what it WRITES).      *)
(* setX(v) is [st EXCEPT !.X = v]; setX(prev => f(prev)) is                *)
(* [st EXCEPT !.X = f(@)].  One action is one event handler run to         *)
(* completion followed by the commit of the queued updates.                *)
(*                                                                         *)
(* Keyboard, button and interval handlers are taken from the latest        *)
(* committed render (every update that can change what they read also      *)
(* changes one of the dependencies that re-creates them).  The callback    *)
(* hardDrop hands to setTimeout keeps the render hardDrop ran in.          *)
(***************************************************************************)
EXTENDS Integers, Sequences, FiniteSets, TLC

\* ------------------------------------------------------------- bounds
\* The playfield of the model (the program's is 10 x 20).
BOARD_WIDTH == 4
BOARD_HEIGHT == 4
\* The piece factory draws from the first NumTypes kinds of `types`.
NumTypes == 2
\* Caps on the counters, stated in the guards of Next.
MaxScore == 6
MaxLines == 11
\* Hard-drop timeouts that may be pending at once.
MaxTimers == 1
\* Input events (keys, clicks) that fit into the 50 ms a timeout is pending.
MaxInputsPending == 1
\* Cap on the occupied cells of the board, stated in the guards of Next.
MaxCells == 4
\* The caps of SpecClear.
MaxCellsClear == 8
MaxLinesClear == 2
MaxScoreClear == 360
\* The cap on the lines of SpecDrop.
MaxLinesDrop == 12

\* ---------------------------------------------------- program constants
INITIAL_SPEED == 1000
MIN_SPEED == 100
SPEED_STEP == 100
LINES_PER_LEVEL == 10
COMBO_POINTS == 50
SOFT_DROP_POINTS == 1
HARD_DROP_POINTS == 2

\* A cell without a colour (null in the source).
NoColor == ""

types == <<"I", "O", "T", "S", "Z", "J", "L">>

TETROMINOES(t) ==
  CASE t = "I" -> [shape |-> << <<1, 1, 1, 1>> >>, color |-> "#00f0f0"]
    [] t = "O" -> [shape |-> << <<1, 1>>, <<1, 1>> >>, color |-> "#f0f000"]
    [] t = "T" -> [shape |-> << <<0, 1, 0>>, <<1, 1, 1>> >>, color |-> "#a000f0"]
    [] t = "S" -> [shape |-> << <<0, 1, 1>>, <<1, 1, 0>> >>, color |-> "#00f000"]
    [] t = "Z" -> [shape |-> << <<1, 1, 0>>, <<0, 1, 1>> >>, color |-> "#f00000"]
    [] t = "J" -> [shape |-> << <<1, 0, 0>>, <<1, 1, 1>> >>, color |-> "#0000f0"]
    [] t = "L" -> [shape |-> << <<0, 0, 1>>, <<1, 1, 1>> >>, color |-> "#f0a000"]

\* null, for a Tetromino | null cell
Null == [type |-> "null", shape |-> << >>, color |-> NoColor]

\* The values Math.random can make createRandomTetromino return.
RandomTypes == {types[i] : i \in 1..NumTypes}

createRandomTetromino(t) ==
  [type |-> t, shape |-> TETROMINOES(t).shape, color |-> TETROMINOES(t).color]

createEmptyBoard ==
  [y \in 1..BOARD_HEIGHT |-> [x \in 1..BOARD_WIDTH |-> NoColor]]

\* checkBoard[y][x] with the source's 0-based indices
Cell(b, y, x) == b[y + 1][x + 1]

FloorDiv2(n) == n \div 2

\* ------------------------------------------------------------ rotation
\* rotatePiece as it would be without .reverse(): the transpose alone.
rotatePiece_NoReverse(piece) ==
  LET R == Len(piece.shape)
      C == Len(piece.shape[1])
      rotated == [i \in 1..C |-> [j \in 1..R |-> piece.shape[j][i]]]
  IN  [piece EXCEPT !.shape = rotated]

\* rotated[i][j] = shape[R-1-j][i]: column i of the shape, read bottom-up.
rotatePiece(piece) ==
  LET R == Len(piece.shape)
      C == Len(piece.shape[1])
      rotated == [i \in 1..C |-> [j \in 1..R |-> piece.shape[R + 1 - j][i]]]
  IN  [piece EXCEPT !.shape = rotated]

\* ----------------------------------------------------------- collision
isValidPosition(piece, pos, checkBoard) ==
  \A y \in 0..(Len(piece.shape) - 1) :
    \A x \in 0..(Len(piece.shape[y + 1]) - 1) :
      piece.shape[y + 1][x + 1] # 0 =>
        LET newX == pos.x + x
            newY == pos.y + y
        IN  ~ ( \/ newX < 0
                \/ newX >= BOARD_WIDTH
                \/ newY >= BOARD_HEIGHT
                \/ (newY >= 0 /\ Cell(checkBoard, newY, newX) # NoColor) )

RECURSIVE GhostY(_, _, _, _)
GhostY(piece, x, ghostY, b) ==
  IF isValidPosition(piece, [x |-> x, y |-> ghostY + 1], b)
  THEN GhostY(piece, x, ghostY + 1, b)
  ELSE ghostY

calculateGhostPosition(piece, pos, b) ==
  [x |-> pos.x, y |-> GhostY(piece, pos.x, pos.y, b)]

\* spawn column: floor(BOARD_WIDTH / 2) - floor(shape[0].length / 2)
StartX(piece) == FloorDiv2(BOARD_WIDTH) - FloorDiv2(Len(piece.shape[1]))

StartPos(piece) == [x |-> StartX(piece), y |-> 0]


\* ---------------------------------------------------------------- state
VARIABLES
  board, currentPiece, position, nextPiece, heldPiece, canHold,
  score, level, lines, gameOver, paused, gameStarted, speed, combo,
  ghostPosition,
  timers,   \* the pending setTimeout callbacks, oldest first: the render each
            \* captured (closure) and the input events handled since (inputs)
  ev        \* history: the handler that produced this state, and what it did

vars == << board, currentPiece, position, nextPiece, heldPiece, canHold,
           score, level, lines, gameOver, paused, gameStarted, speed, combo,
           ghostPosition, timers, ev >>

\* The values of the current render: what a function created in it reads,
\* and the base on which its queued updates are applied.
Render ==
  [ board |-> board, currentPiece |-> currentPiece, position |-> position,
    nextPiece |-> nextPiece, heldPiece |-> heldPiece, canHold |-> canHold,
    score |-> score, level |-> level, lines |-> lines, gameOver |-> gameOver,
    paused |-> paused, gameStarted |-> gameStarted, speed |-> speed,
    combo |-> combo, ghostPosition |-> ghostPosition ]

\* The commit of a handler's queued updates: the next render.
Commit(st) ==
  /\ board' = st.board
  /\ currentPiece' = st.currentPiece
  /\ position' = st.position
  /\ nextPiece' = st.nextPiece
  /\ heldPiece' = st.heldPiece
  /\ canHold' = st.canHold
  /\ score' = st.score
  /\ level' = st.level
  /\ lines' = st.lines
  /\ gameOver' = st.gameOver
  /\ paused' = st.paused
  /\ gameStarted' = st.gameStarted
  /\ speed' = st.speed
  /\ combo' = st.combo
  /\ ghostPosition' = st.ghostPosition

\* HoldIgnored as it would be without the canHold test.
HoldIgnored_NoCanHold(r) == r.currentPiece = Null \/ r.gameOver \/ r.paused

\* holdPiece returns at once (line 246)
HoldIgnored(r) == r.currentPiece = Null \/ ~ r.canHold \/ r.gameOver \/ r.paused

\* name: the handler; locked: it ran mergePiece on a piece; kick: for rotate,
\* the index of the wall kick it committed (0: none); hold: "none" when no
\* holdPiece call got past its early return since the last lock, else "held",
\* or "refused" when a later call returned early, or "restarted" when
\* startGame ran since.
Event(name, locked, kick) ==
  [name |-> name, locked |-> locked, kick |-> kick,
   hold |-> IF locked \/ name \in {"init", "input"} THEN "none"
            ELSE IF name = "hold" /\ ~ HoldIgnored(Render) THEN "held"
            ELSE IF name = "hold" /\ ev.hold = "held" THEN "refused"
            ELSE IF name = "start" /\ ev.hold \in {"held", "refused"} THEN "restarted"
            ELSE ev.hold]

Init ==
  /\ board = createEmptyBoard
  /\ currentPiece = Null
  /\ position = [x |-> 0, y |-> 0]
  /\ nextPiece = Null
  /\ heldPiece = Null
  /\ canHold = TRUE
  /\ score = 0
  /\ level = 1
  /\ lines = 0
  /\ gameOver = FALSE
  /\ paused = FALSE
  /\ gameStarted = FALSE
  /\ speed = INITIAL_SPEED
  /\ combo = 0
  /\ ghostPosition = [x |-> 0, y |-> 0]
  /\ timers = << >>
  /\ ev = Event("init", FALSE, 0)

\* ------------------------------------------------------- lock and clear
\* The loop of mergePiece: the piece's colour written under every occupied
\* shape cell whose row is >= 0.
PieceCovers(piece, pos, y, x) ==
  /\ y - pos.y >= 0
  /\ y - pos.y < Len(piece.shape)
  /\ x - pos.x >= 0
  /\ x - pos.x < Len(piece.shape[y - pos.y + 1])
  /\ piece.shape[y - pos.y + 1][x - pos.x + 1] # 0

WritePiece(b, piece, pos) ==
  [y \in 1..BOARD_HEIGHT |->
    [x \in 1..BOARD_WIDTH |->
      IF PieceCovers(piece, pos, y - 1, x - 1) THEN piece.color ELSE b[y][x]]]

isFull(row) == \A x \in 1..Len(row) : row[x] # NoColor

\* Unshift as it would be with push in place of unshift: the empty rows are
\* added at the bottom.
RECURSIVE Unshift_Push(_)
Unshift_Push(rows) ==
  IF Len(rows) < BOARD_HEIGHT
  THEN Unshift_Push(rows \o << [x \in 1..BOARD_WIDTH |-> NoColor] >>)
  ELSE rows

RECURSIVE Unshift(_)
Unshift(rows) ==
  IF Len(rows) < BOARD_HEIGHT
  THEN Unshift(<< [x \in 1..BOARD_WIDTH |-> NoColor] >> \o rows)
  ELSE rows

\* The filter and the refill of checkLines.
ClearedBoard(currentBoard) ==
  Unshift(SelectSeq(currentBoard, LAMBDA row : ~ isFull(row)))

LinesCleared(currentBoard) ==
  Cardinality({y \in 1..Len(currentBoard) : isFull(currentBoard[y])})

BasePoints(n) == << 0, 100, 300, 500, 800 >>[n + 1]

Max(a, b) == IF a >= b THEN a ELSE b

SpeedFor(newLevel) == Max(MIN_SPEED, INITIAL_SPEED - (newLevel - 1) * SPEED_STEP)

\* newLevel of checkLines, from the `lines` of the render it runs in.
NewLevel(renderLines) == (renderLines \div LINES_PER_LEVEL) + 1

checkLines(r, currentBoard, st) ==
  LET linesCleared == LinesCleared(currentBoard)
      newBoard == ClearedBoard(currentBoard)
      newCombo == r.combo + 1
      basePoints == BasePoints(linesCleared)
      comboBonus == newCombo * COMBO_POINTS
      levelBonus == r.level
      newLevel == NewLevel(r.lines)
      s1 == [st EXCEPT !.board = newBoard,
                       !.lines = @ + linesCleared,
                       !.combo = newCombo,
                       !.score = @ + (basePoints + comboBonus) * levelBonus]
  IN  IF linesCleared > 0
      THEN IF newLevel # r.level
           THEN [s1 EXCEPT !.level = newLevel, !.speed = SpeedFor(newLevel)]
           ELSE s1
      ELSE [st EXCEPT !.combo = 0]

mergePiece(r, st) ==
  IF r.currentPiece = Null
  THEN st
  ELSE LET newBoard == WritePiece(r.board, r.currentPiece, r.position)
       IN  [checkLines(r, newBoard, [st EXCEPT !.board = newBoard])
              EXCEPT !.canHold = TRUE]

\* ---------------------------------------------------------------- spawn
\* rnd1, rnd2: the kinds the two createRandomTetromino calls draw.
SpawnPiece(r, rnd1) ==
  IF r.nextPiece # Null THEN r.nextPiece ELSE createRandomTetromino(rnd1)

\* The board spawnNewPiece validates against: isValidPosition is called
\* without testBoard, so it is the board of the render the call runs in.
SpawnCheckBoard(r, st) == r.board

SpawnAccepted(r, st, rnd1) ==
  isValidPosition(SpawnPiece(r, rnd1), StartPos(SpawnPiece(r, rnd1)),
                  SpawnCheckBoard(r, st))

spawnNewPiece(r, st, rnd1, rnd2) ==
  LET piece == SpawnPiece(r, rnd1)
      newNext == createRandomTetromino(rnd2)
      start == StartPos(piece)
  IN  IF ~ SpawnAccepted(r, st, rnd1)
      THEN [st EXCEPT !.gameOver = TRUE]
      ELSE [st EXCEPT !.currentPiece = piece,
                      !.position = start,
                      !.nextPiece = newNext,
                      !.ghostPosition =
                          calculateGhostPosition(piece, start, SpawnCheckBoard(r, st))]


\* ------------------------------------------------------------- movement
Ignored(r) == r.currentPiece = Null \/ r.gameOver \/ r.paused

Down(pos) == [x |-> pos.x, y |-> pos.y + 1]

\* moveDown takes its else branch: the piece cannot go down and is locked.
Locks(r) == ~ Ignored(r) /\ ~ isValidPosition(r.currentPiece, Down(r.position), r.board)

MoveTo(r, st, newPos) ==
  IF isValidPosition(r.currentPiece, newPos, r.board)
  THEN [st EXCEPT !.position = newPos,
                  !.ghostPosition = calculateGhostPosition(r.currentPiece, newPos, r.board)]
  ELSE st

moveDown(r, st, rnd1, rnd2) ==
  IF Ignored(r)
  THEN st
  ELSE IF isValidPosition(r.currentPiece, Down(r.position), r.board)
       THEN MoveTo(r, st, Down(r.position))
       ELSE spawnNewPiece(r, mergePiece(r, st), rnd1, rnd2)

moveLeft(r, st) ==
  IF Ignored(r) THEN st
  ELSE MoveTo(r, st, [x |-> r.position.x - 1, y |-> r.position.y])

moveRight(r, st) ==
  IF Ignored(r) THEN st
  ELSE MoveTo(r, st, [x |-> r.position.x + 1, y |-> r.position.y])

\* Wall kick attempts, in the order of the source.
kicks ==
  << [x |-> 0, y |-> 0], [x |-> -1, y |-> 0], [x |-> 1, y |-> 0],
     [x |-> 0, y |-> -1], [x |-> -2, y |-> 0], [x |-> 2, y |-> 0] >>

KickPos(r, k) == [x |-> r.position.x + kicks[k].x, y |-> r.position.y + kicks[k].y]

KickValid(r, k) == isValidPosition(rotatePiece(r.currentPiece), KickPos(r, k), r.board)

\* FirstKick as it would be were the `return` after the commit missing: the
\* loop runs on and the last valid kick wins.
FirstKick_NoReturn(r) ==
  IF \E k \in 1..Len(kicks) : KickValid(r, k)
  THEN CHOOSE k \in 1..Len(kicks) :
         KickValid(r, k) /\ \A j \in (k + 1)..Len(kicks) : ~ KickValid(r, j)
  ELSE 0

\* The kick the for loop returns at: the first valid one (0: none).
FirstKick(r) ==
  IF \E k \in 1..Len(kicks) : KickValid(r, k)
  THEN CHOOSE k \in 1..Len(kicks) :
         KickValid(r, k) /\ \A j \in 1..(k - 1) : ~ KickValid(r, j)
  ELSE 0

rotate(r, st) ==
  IF Ignored(r) \/ FirstKick(r) = 0
  THEN st
  ELSE LET rotated == rotatePiece(r.currentPiece)
           newPos == KickPos(r, FirstKick(r))
       IN  [st EXCEPT !.currentPiece = rotated,
                      !.position = newPos,
                      !.ghostPosition = calculateGhostPosition(rotated, newPos, r.board)]

\* ------------------------------------------------------------ hard drop
\* newPos after the while loop of hardDrop.
DropPos(r) == calculateGhostPosition(r.currentPiece, r.position, r.board)

\* hardDrop as it would be when it paid a dropped row like a soft-drop step.
hardDrop_SoftPoints(r, st) ==
  IF Ignored(r)
  THEN st
  ELSE LET newPos == DropPos(r)
           dropDistance == newPos.y - r.position.y
       IN  [st EXCEPT !.position = newPos,
                      !.score = @ + dropDistance * SOFT_DROP_POINTS]

hardDrop(r, st) ==
  IF Ignored(r)
  THEN st
  ELSE LET newPos == DropPos(r)
           dropDistance == newPos.y - r.position.y
       IN  [st EXCEPT !.position = newPos,
                      !.score = @ + dropDistance * HARD_DROP_POINTS]

\* What the callback given to setTimeout reads when it runs mergePiece and
\* spawnNewPiece: the values of the render hardDrop was called in.
Closure(r) ==
  [ board |-> r.board, currentPiece |-> r.currentPiece, position |-> r.position,
    nextPiece |-> r.nextPiece, combo |-> r.combo, level |-> r.level,
    lines |-> r.lines ]

\* ----------------------------------------------------------------- hold
holdPiece(r, st, rnd1, rnd2) ==
  IF HoldIgnored(r)
  THEN st
  ELSE LET s1 == [st EXCEPT !.canHold = FALSE]
       IN  IF r.heldPiece # Null
           THEN LET temp == r.heldPiece
                IN  [s1 EXCEPT !.heldPiece = r.currentPiece,
                               !.currentPiece = temp,
                               !.position = StartPos(temp),
                               !.ghostPosition =
                                   calculateGhostPosition(temp, StartPos(temp), r.board)]
           ELSE spawnNewPiece(r, [s1 EXCEPT !.heldPiece = r.currentPiece], rnd1, rnd2)

\* ---------------------------------------------------------------- start
startGame(r, st, rnd0, rnd1, rnd2) ==
  LET s1 == [st EXCEPT !.board = createEmptyBoard,
                       !.score = 0,
                       !.level = 1,
                       !.lines = 0,
                       !.combo = 0,
                       !.gameOver = FALSE,
                       !.paused = FALSE,
                       !.gameStarted = TRUE,
                       !.speed = INITIAL_SPEED,
                       !.heldPiece = Null,
                       !.canHold = TRUE,
                       !.nextPiece = createRandomTetromino(rnd0)]
  IN  spawnNewPiece(r, s1, rnd1, rnd2)


\* -------------------------------------------------------------- actions
Occupied(b) ==
  Cardinality({c \in (1..BOARD_HEIGHT) \X (1..BOARD_WIDTH) : b[c[1]][c[2]] # NoColor})

\* The caps of the model: a handler whose result exceeds one is not taken.
Bounded == score' <= MaxScore /\ lines' <= MaxLines /\ Occupied(board') <= MaxCells

Timer(r) == [closure |-> Closure(r), inputs |-> 0]

\* An input event is handled before the pending timeouts expire only while
\* fewer than MaxInputsPending were handled since the oldest was set.
InputFits == \A i \in 1..Len(timers) : timers[i].inputs < MaxInputsPending

InputHandled(ts) == [i \in 1..Len(ts) |-> [ts[i] EXCEPT !.inputs = @ + 1]]

\* handleKeyPress, 'Space' while !gameStarted
PressSpaceStart ==
  /\ InputFits
  /\ ~ gameStarted
  /\ \E rnd0, rnd1, rnd2 \in RandomTypes :
       Commit(startGame(Render, Render, rnd0, rnd1, rnd2))
  /\ timers' = InputHandled(timers)
  /\ ev' = Event("start", FALSE, 0)

\* the PLAY AGAIN button, rendered while gameOver
ClickPlayAgain ==
  /\ InputFits
  /\ gameOver
  /\ \E rnd0, rnd1, rnd2 \in RandomTypes :
       Commit(startGame(Render, Render, rnd0, rnd1, rnd2))
  /\ timers' = InputHandled(timers)
  /\ ev' = Event("start", FALSE, 0)

\* handleKeyPress, 'Escape'
PressEscape ==
  /\ InputFits
  /\ Commit([Render EXCEPT !.paused = ~ @])
  /\ timers' = InputHandled(timers)
  /\ ev' = Event("togglePause", FALSE, 0)

\* handleKeyPress, 'ArrowLeft'
PressArrowLeft ==
  /\ InputFits
  /\ Commit(moveLeft(Render, Render))
  /\ timers' = InputHandled(timers)
  /\ ev' = Event("left", FALSE, 0)

\* handleKeyPress, 'ArrowRight'
PressArrowRight ==
  /\ InputFits
  /\ Commit(moveRight(Render, Render))
  /\ timers' = InputHandled(timers)
  /\ ev' = Event("right", FALSE, 0)

\* handleKeyPress, 'ArrowDown': moveDown(), then setScore(prev => prev + 1)
SoftDown(r, st, rnd1, rnd2) ==
  [moveDown(r, st, rnd1, rnd2) EXCEPT !.score = @ + SOFT_DROP_POINTS]

PressArrowDown ==
  /\ InputFits
  /\ \E rnd1, rnd2 \in RandomTypes : Commit(SoftDown(Render, Render, rnd1, rnd2))
  /\ timers' = InputHandled(timers)
  /\ ev' = Event("softDown", Locks(Render), 0)

\* handleKeyPress, 'ArrowUp' and 'KeyX'
PressRotate ==
  /\ InputFits
  /\ Commit(rotate(Render, Render))
  /\ timers' = InputHandled(timers)
  /\ ev' = Event("rotate", FALSE, IF Ignored(Render) THEN 0 ELSE FirstKick(Render))

\* handleKeyPress, 'Space' while gameStarted: hardDrop, which leaves the lock
\* and the spawn to a timeout of 50 ms
PressSpaceHardDrop ==
  /\ InputFits
  /\ gameStarted
  /\ Commit(hardDrop(Render, Render))
  /\ IF Ignored(Render)
     THEN timers' = InputHandled(timers)
     ELSE /\ Len(timers) < MaxTimers
          /\ timers' = Append(InputHandled(timers), Timer(Render))
  /\ ev' = Event("hardDrop", FALSE, 0)

\* handleKeyPress, 'KeyC' and 'ShiftLeft'
PressHold ==
  /\ InputFits
  /\ \E rnd1, rnd2 \in RandomTypes : Commit(holdPiece(Render, Render, rnd1, rnd2))
  /\ timers' = InputHandled(timers)
  /\ ev' = Event("hold", FALSE, 0)

\* The interval of the game loop effect calls moveDown.  The effect arms it
\* only while gameStarted && !gameOver && !paused, and re-arms it (period
\* speed >= MIN_SPEED = 100 ms) in the render that follows every hardDrop, so
\* a tick never comes before a pending 50 ms timeout.
GravityTick ==
  /\ gameStarted /\ ~ gameOver /\ ~ paused
  /\ timers = << >>
  /\ \E rnd1, rnd2 \in RandomTypes : Commit(moveDown(Render, Render, rnd1, rnd2))
  /\ timers' = timers
  /\ ev' = Event("tick", Locks(Render), 0)

\* The callback of hardDrop's setTimeout: mergePiece(); spawnNewPiece(), both
\* of the render hardDrop ran in, queued on the state as it is now.
HardDropTimeout ==
  /\ timers # << >>
  /\ \E rnd1, rnd2 \in RandomTypes :
       Commit(spawnNewPiece(Head(timers).closure,
                           mergePiece(Head(timers).closure, Render), rnd1, rnd2))
  /\ timers' = Tail(timers)
  /\ ev' = Event("timeout", Head(timers).closure.currentPiece # Null, 0)

Next ==
  \/ PressSpaceStart /\ Bounded
  \/ ClickPlayAgain /\ Bounded
  \/ PressEscape /\ Bounded
  \/ PressArrowLeft /\ Bounded
  \/ PressArrowRight /\ Bounded
  \/ PressArrowDown /\ Bounded
  \/ PressRotate /\ Bounded
  \/ PressSpaceHardDrop /\ Bounded
  \/ PressHold /\ Bounded
  \/ GravityTick /\ Bounded
  \/ HardDropTimeout /\ Bounded

Spec == Init /\ [][Next]_vars

\* The game without hold, pause, soft drop and restart, with room for line
\* clears: the score is left free, the lines and the cells are capped.
BoundedClear ==
  score' <= MaxScoreClear /\ lines' <= MaxLinesClear /\ Occupied(board') <= MaxCellsClear

NextClear ==
  \/ PressSpaceStart /\ BoundedClear
  \/ PressArrowLeft /\ BoundedClear
  \/ PressArrowRight /\ BoundedClear
  \/ PressRotate /\ BoundedClear
  \/ PressSpaceHardDrop /\ BoundedClear
  \/ GravityTick /\ BoundedClear
  \/ HardDropTimeout /\ BoundedClear

SpecClear == Init /\ [][NextClear]_vars

\* The game left to gravity: the player starts it and presses nothing else.
\* The score is bounded by the cap on the lines.
BoundedGravity == lines' <= MaxLines /\ Occupied(board') <= MaxCellsClear

NextGravity ==
  \/ PressSpaceStart /\ BoundedGravity
  \/ GravityTick /\ BoundedGravity

SpecGravity == Init /\ [][NextGravity]_vars

\* Hard drops with a soft drop pressed while the lock is pending: the player
\* starts the game, hard-drops every piece before gravity moves it, and
\* presses ArrowDown only in the 50 ms after a hard drop.  The score is
\* bounded by the caps on the lines and the cells.
BoundedDrop == lines' <= MaxLinesDrop /\ Occupied(board') <= MaxCells

NextDrop ==
  \/ PressSpaceStart /\ BoundedDrop
  \/ PressSpaceHardDrop /\ BoundedDrop
  \/ PressArrowDown /\ timers # << >> /\ BoundedDrop
  \/ HardDropTimeout /\ BoundedDrop

SpecDrop == Init /\ [][NextDrop]_vars

\* ---------------------------------------------- the pure functions alone
\* Rows a board handed to checkLines is made of: empty, full (in two
\* colours) and three partly filled ones that differ from each other.
InputRowKinds == {"empty", "full", "fullO", "left", "butLast", "odd"}

InputRow(kind) ==
  [x \in 1..BOARD_WIDTH |->
    CASE kind = "empty" -> NoColor
      [] kind = "full" -> TETROMINOES("I").color
      [] kind = "fullO" -> TETROMINOES("O").color
      [] kind = "left" -> IF x = 1 THEN TETROMINOES("O").color ELSE NoColor
      [] kind = "butLast" -> IF x < BOARD_WIDTH THEN TETROMINOES("I").color ELSE NoColor
      [] kind = "odd" -> IF x % 2 = 1 THEN TETROMINOES("T").color ELSE NoColor]

\* The boards checkLines is applied to.  A lock fills at most four rows.
InputBoards ==
  {b \in [1..BOARD_HEIGHT -> {InputRow(k) : k \in InputRowKinds}] :
     LinesCleared(b) <= 4}

\* The pieces rotatePiece is applied to: every kind of the catalog (and, by
\* repeating the action, every rotation of it).
InputPieces == {createRandomTetromino(types[i]) : i \in 1..Len(types)}

InitPure ==
  /\ \/ board \in InputBoards /\ currentPiece = Null
     \/ board = createEmptyBoard /\ currentPiece \in InputPieces
  /\ position = [x |-> 0, y |-> 0]
  /\ nextPiece = Null
  /\ heldPiece = Null
  /\ canHold = TRUE
  /\ score = 0
  /\ level = 1
  /\ lines = 0
  /\ gameOver = FALSE
  /\ paused = FALSE
  /\ gameStarted = TRUE
  /\ speed = INITIAL_SPEED
  /\ combo = 0
  /\ ghostPosition = [x |-> 0, y |-> 0]
  /\ timers = << >>
  /\ ev = Event("input", FALSE, 0)

\* checkLines(currentBoard) applied to the input board
ApplyCheckLines ==
  /\ currentPiece = Null
  /\ ev.name = "input"
  /\ Commit(checkLines(Render, board, Render))
  /\ timers' = timers
  /\ ev' = Event("checkLines", FALSE, 0)

\* rotatePiece(piece) applied to the input piece
ApplyRotatePiece ==
  /\ currentPiece # Null
  /\ Commit([Render EXCEPT !.currentPiece = rotatePiece(currentPiece)])
  /\ timers' = timers
  /\ ev' = Event("rotatePiece", FALSE, 0)

NextPure ==
  \/ ApplyCheckLines
  \/ ApplyRotatePiece

SpecPure == InitPure /\ [][NextPure]_vars

\* ==================================================================
\* Claims
\* ==================================================================
Playing == gameStarted /\ ~ paused /\ ~ gameOver

\* C1: in every reachable state level = floor(lines / 10) + 1, so the lock
\* that takes the cumulative lines from 9 to 10 raises the level to 2.
C1_LevelFollowsLines == level = (lines \div 10) + 1

\* The step is a lock made by moveDown (tick, softDown) or by the timeout
\* of a hard drop.
LockStep == ev'.locked

\* The score a lock adds through its line clear.
LockScore(r) == mergePiece(r, Render).score - score

\* C2: the lock that follows a hardDrop writes the piece at its resting
\* position: the lowest valid position below, in the same column as, the
\* position the piece had when hardDrop was invoked.  The board after the
\* lock is the board before it with the piece written there (and its full
\* rows cleared).
C2_HardDropLocksAtRest ==
  [][ (timers # << >> /\ ev'.name = "timeout" /\ ev'.locked) =>
        LET c == Head(timers).closure
        IN  board' = ClearedBoard(WritePiece(board, c.currentPiece, DropPos(c)))
    ]_vars

\* moveDown commits the step one row down.
StepAccepted(r) ==
  ~ Ignored(r) /\ isValidPosition(r.currentPiece, Down(r.position), r.board)

\* C3: a softDown adds exactly 1 to the score when its step down is accepted
\* and nothing when the step is rejected (the piece locks; only the lock's
\* line-clear score is added) or the action is ignored; a gravity tick never
\* adds the point.
C3_SoftDropPoint ==
  [][ /\ ev'.name = "softDown" =>
           score' = score
                    + (IF Locks(Render) THEN LockScore(Render) ELSE 0)
                    + (IF StepAccepted(Render) THEN 1 ELSE 0)
      /\ ev'.name = "tick" =>
           score' = score + (IF Locks(Render) THEN LockScore(Render) ELSE 0)
    ]_vars

\* C4: while the game is not Playing, or there is no active piece, left,
\* right, softDown, rotate, hardDrop and hold leave the game state unchanged.
C4_NoOpUnlessPlaying ==
  [][ ( /\ ev'.name \in {"left", "right", "softDown", "rotate", "hardDrop", "hold"}
        /\ (~ Playing \/ currentPiece = Null) ) =>
        UNCHANGED << board, currentPiece, position, ghostPosition, nextPiece,
                     heldPiece, canHold, score, level, lines, combo >>
    ]_vars

\* C5: togglePause flips paused when the game is Playing or Paused, and
\* leaves paused and the rest of the state unchanged when it is NotStarted
\* or GameOver.
C5_PauseOnlyWhilePlayingOrPaused ==
  [][ ev'.name = "togglePause" =>
        IF gameStarted /\ ~ gameOver
        THEN paused' = ~ paused
        ELSE UNCHANGED << paused, board, currentPiece, position, ghostPosition,
                          nextPiece, heldPiece, canHold, score, level, lines,
                          combo, gameOver, gameStarted, speed >>
    ]_vars

\* C6: a start taken in the GameOver state clears Game Over and yields a
\* fresh Playing state: empty board, zeroed stats, nothing held, and an
\* active piece at the centered spawn position in row 0.
C6_StartClearsGameOver ==
  [][ (gameOver /\ ev'.name = "start") =>
        /\ ~ gameOver'
        /\ gameStarted' /\ ~ paused'
        /\ board' = createEmptyBoard
        /\ score' = 0 /\ level' = 1 /\ lines' = 0 /\ combo' = 0
        /\ heldPiece' = Null
        /\ currentPiece' # Null
        /\ position' = StartPos(currentPiece')
    ]_vars

\* The piece a lock step brings in: the queued next piece of the render the
\* lock ran in.
QueuedPiece ==
  IF ev'.name = "timeout" THEN Head(timers).closure.nextPiece ELSE nextPiece

\* C7: on every lock the spawn check of the next piece is made against the
\* board that already holds the locked piece, after line clearing: if the
\* next piece overlaps that board at its spawn position the game becomes
\* GameOver and no piece becomes active, otherwise the piece becomes active
\* and the game is not over.
C7_SpawnCheckedAfterLock ==
  [][ (LockStep /\ ~ gameOver /\ QueuedPiece # Null) =>
        IF isValidPosition(QueuedPiece, StartPos(QueuedPiece), board')
        THEN /\ ~ gameOver'
             /\ currentPiece' = QueuedPiece
             /\ position' = StartPos(QueuedPiece)
        ELSE /\ gameOver'
             /\ UNCHANGED << currentPiece, position >>
    ]_vars

\* The offsets of C8, in the order the claim gives them.
C8_Offsets ==
  << <<0, 0>>, <<-1, 0>>, <<1, 0>>, <<0, -1>>, <<-2, 0>>, <<2, 0>> >>

C8_Try(k) == [x |-> position.x + C8_Offsets[k][1], y |-> position.y + C8_Offsets[k][2]]

C8_Accepted(k) == isValidPosition(rotatePiece(currentPiece), C8_Try(k), board)

\* C8: a rotate that is not ignored commits the rotated shape at the first
\* offset, in the order (0,0), (-1,0), (+1,0), (0,-1), (-2,0), (+2,0), that
\* the collision validator accepts; when it accepts none, the active piece,
\* its position and the ghost stay as they are.
C8_RotateFirstValidKick ==
  [][ (ev'.name = "rotate" /\ ~ Ignored(Render)) =>
        IF \E k \in 1..6 : C8_Accepted(k)
        THEN \E k \in 1..6 :
               /\ C8_Accepted(k)
               /\ \A j \in 1..(k - 1) : ~ C8_Accepted(j)
               /\ currentPiece' = rotatePiece(currentPiece)
               /\ position' = C8_Try(k)
        ELSE UNCHANGED << currentPiece, position, ghostPosition >>
    ]_vars

\* A rotate was committed through a wall kick other than (0,0).
C8_Witness == ev.name = "rotate" /\ ev.kick > 1

\* C9: in every reachable state with an active piece the ghost is in the
\* column of the active piece and not above it: ghostPosition.x = position.x
\* and ghostPosition.y >= position.y.
C9_GhostBelowActive ==
  currentPiece # Null =>
    ghostPosition.x = position.x /\ ghostPosition.y >= position.y

\* C10: in every reachable Playing state with an active piece the ghost is a
\* resting point of the current board: the active shape is valid at
\* ghostPosition and not valid one row below it.
C10_GhostIsRestingPoint ==
  (Playing /\ currentPiece # Null) =>
    /\ isValidPosition(currentPiece, ghostPosition, board)
    /\ ~ isValidPosition(currentPiece, Down(ghostPosition), board)


\* The non-full rows of b among its first y rows.
C11_KeptUpTo(b, y) == Cardinality({z \in 1..y : ~ isFull(b[z])})

\* C11: line clearing on a board with exactly k full rows reports k cleared
\* lines and yields a board of the same height whose top k rows are empty
\* and whose other rows are the non-full rows of the input, in their order.
C11_ClearFullRows ==
  [][ ev'.name = "checkLines" =>
        LET k == Cardinality({y \in 1..BOARD_HEIGHT : isFull(board[y])})
        IN  /\ lines' = lines + k
            /\ Len(board') = BOARD_HEIGHT
            /\ \A y \in 1..k : \A x \in 1..BOARD_WIDTH : board'[y][x] = NoColor
            /\ \A y \in 1..BOARD_HEIGHT :
                 ~ isFull(board[y]) => board'[k + C11_KeptUpTo(board, y)] = board[y]
    ]_vars

\* checkLines cleared two or more rows and kept a row that is not empty.
C11_Witness ==
  /\ ev.name = "checkLines"
  /\ lines >= 2
  /\ \E y \in 1..BOARD_HEIGHT : \E x \in 1..BOARD_WIDTH : board[y][x] # NoColor

\* The shape has a cell at row r, column c (0-based).
C16_InShape(shape, r, c) ==
  r >= 0 /\ r < Len(shape) /\ c >= 0 /\ c < Len(shape[1])

\* C16, as claimed: the rotated shape's cell at (r,c) is the old shape's cell
\* at (c, R-1-r), R the old shape's row count.
C16_RotateCellMap_Claimed ==
  [][ ev'.name = "rotatePiece" =>
        LET old == currentPiece.shape
            new == currentPiece'.shape
            R == Len(old)
        IN  \A r \in 0..(Len(new) - 1) : \A c \in 0..(Len(new[1]) - 1) :
              /\ C16_InShape(old, c, R - 1 - r)
              /\ new[r + 1][c + 1] = old[c + 1][R - 1 - r + 1]
    ]_vars

\* C16, amended: the rotated shape has the old shape's column count as its
\* row count and the old row count R as its column count, and its cell at
\* (r,c) is the old shape's cell at (R-1-c, r): a clockwise quarter turn.
C16_RotateCellMap ==
  [][ ev'.name = "rotatePiece" =>
        LET old == currentPiece.shape
            new == currentPiece'.shape
            R == Len(old)
        IN  /\ Len(new) = Len(old[1])
            /\ \A r \in 0..(Len(new) - 1) :
                 /\ Len(new[r + 1]) = R
                 /\ \A c \in 0..(R - 1) :
                      /\ C16_InShape(old, R - 1 - c, r)
                      /\ new[r + 1][c + 1] = old[R - 1 - c + 1][r + 1]
    ]_vars

\* rotatePiece turned an L that is no longer in its catalog orientation.
C16_Witness ==
  /\ ev.name = "rotatePiece"
  /\ currentPiece.type = "L"
  /\ Len(currentPiece.shape) = 3


\* The rows the active piece can fall: the one-row steps down from its
\* position that are valid placements, up to the first that is not.
C13_Fall ==
  CHOOSE d \in 0..(2 * BOARD_HEIGHT) :
    /\ \A j \in 1..d :
         isValidPosition(currentPiece, [x |-> position.x, y |-> position.y + j], board)
    /\ ~ isValidPosition(currentPiece,
                         [x |-> position.x, y |-> position.y + d + 1], board)

\* C13: a hardDrop taken while Playing adds exactly 2*d to the score in the
\* step of the drop itself, d the rows the piece falls (possibly 0); the
\* score of the lock that follows is not part of that step.
C13_HardDropScore ==
  [][ (ev'.name = "hardDrop" /\ Playing /\ currentPiece # Null) =>
        /\ score' = score + 2 * C13_Fall
        /\ position' = [x |-> position.x, y |-> position.y + C13_Fall]
        /\ lines' = lines
    ]_vars

\* A hardDrop dropped the piece by two rows or more; its lock is pending.
C13_Witness ==
  /\ ev.name = "hardDrop"
  /\ timers # << >>
  /\ position.y - timers[Len(timers)].closure.position.y >= 2
  /\ score >= 4

\* C15, as claimed: once a hold has taken effect, a hold before the next
\* lock changes neither the active piece nor the held piece nor the position.
C15_OneHoldPerLock_Claimed ==
  [][ (ev'.name = "hold" /\ ev.hold \in {"held", "refused", "restarted"}) =>
        UNCHANGED << currentPiece, heldPiece, position >>
    ]_vars

\* C15: once a hold has taken effect, a hold before the next lock and before
\* the next start changes neither the active piece nor the held piece nor
\* the position.
C15_OneHoldPerLock ==
  [][ (ev'.name = "hold" /\ ev.hold \in {"held", "refused"}) =>
        UNCHANGED << currentPiece, heldPiece, position >>
    ]_vars

\* A second hold was pressed while Playing, with a piece in hand that
\* differs from the held one, after a hold that had taken effect.
C15_Witness ==
  /\ ev.name = "hold"
  /\ ev.hold = "refused"
  /\ Playing
  /\ currentPiece # Null
  /\ heldPiece # Null
  /\ currentPiece.type # heldPiece.type


\* What the game shows of its progress: board, pieces, position, statistics.
GameState ==
  << board, currentPiece, position, nextPiece, score, level, lines, combo >>

\* C17: while the game is paused, over or not started, a timer-driven step
\* (gravity tick, timeout of a hard drop) changes neither the board nor the
\* active piece, its position, the next piece or the statistics.
C17_TimersIdleUnlessPlaying ==
  [][ (~ Playing /\ ev'.name \in {"tick", "timeout"}) => UNCHANGED GameState ]_vars

\* C18: a hard drop is one transition with its lock: while the lock of a hard
\* drop is still to come, no other handler (key, button, gravity tick) gets
\* to change the game.
C18_HardDropAtomic ==
  [][ (timers # << >> /\ ev'.name # "timeout") => UNCHANGED GameState ]_vars

\* C19: in every Playing state with an active piece, the piece at its
\* position is a valid placement against the current board.
C19_ActiveIsValid ==
  (Playing /\ currentPiece # Null) =>
    isValidPosition(currentPiece, position, board)

\* The piece and the position a locking step merges: those of the render the
\* step was taken in, or those the timeout of a hard drop carries.
C20_Locked ==
  IF ev'.name = "timeout"
  THEN [piece |-> Head(timers).closure.currentPiece,
        pos |-> Head(timers).closure.position]
  ELSE [piece |-> currentPiece, pos |-> position]

\* C20: in every step but start, the board changes only by a lock; the lock
\* writes its piece onto empty cells only, and the new board is the old one
\* with the piece written and the full rows removed (rows above shifted
\* down), so every other locked cell keeps its colour.
C20_LockedCellsKept ==
  [][ ev'.name # "start" =>
        IF ev'.locked
        THEN /\ \A y \in 0..(BOARD_HEIGHT - 1) : \A x \in 0..(BOARD_WIDTH - 1) :
                  PieceCovers(C20_Locked.piece, C20_Locked.pos, y, x)
                    => Cell(board, y, x) = NoColor
             /\ board' = ClearedBoard(WritePiece(board, C20_Locked.piece, C20_Locked.pos))
        ELSE board' = board
    ]_vars


\* The points of the key handler itself in a step: ArrowDown adds one.
C12_KeyPoints == IF ev'.name = "softDown" THEN 1 ELSE 0

\* C12: a lock that clears n lines (1 <= n <= 4) adds (table[n] + c*50) * L
\* to the score, table = [0,100,300,500,800], c the combo after this lock's
\* increment, L the level before this lock; a lock that clears no line adds
\* nothing.
C12_LockScore ==
  [][ ev'.locked =>
        LET n == lines' - lines
            table == <<0, 100, 300, 500, 800>>
        IN  score' - score - C12_KeyPoints =
              IF n >= 1 THEN (table[n + 1] + combo' * 50) * level ELSE 0
    ]_vars

\* C14: a lock that clears no line sets combo to 0, a lock that clears one
\* line or more adds exactly 1 to combo, so combo counts the most recent
\* locks in a row that cleared a line.
C14_ComboCountsClearingLocks ==
  [][ ev'.locked =>
        combo' = IF lines' = lines THEN 0 ELSE combo + 1
    ]_vars

=============================================================================
